---- MODULE Spec2Model ----
(***************************************************************************)
(* Model of src/elasticsearch_setup/setup_indices.py: the ElasticsearchSetup *)
(* class (construction, test_connection, create_index, setup_all_indices,  *)
(* list_indices, delete_all_indices) and the main() entry point, run       *)
(* against a cluster whose remote calls may fail and a schema directory    *)
(* whose files may be missing or unusable.                                 *)
(***************************************************************************)
EXTENDS Integers, Sequences, FiniteSets, TLC

VARIABLES
    env_url,      \* os.getenv("ELASTICSEARCH_URL")
    env_key,      \* os.getenv("ELASTICSEARCH_API_KEY")
    es,           \* self.es: "none" until the client is constructed
    cluster,      \* the remote cluster: index name -> schema, or "absent"
    stack,        \* call stack, innermost frame first: [fn, pc]
    entry,        \* per method: cluster, log and trace length at its latest entry
    log,          \* remote calls issued so far in this run
    trace,        \* method returns so far in this run
    faults,       \* remote calls that failed so far in this run
    all_success,  \* local of setup_all_indices
    idx,          \* position of the for loops over the four names
    index_name,   \* parameter of create_index
    file,         \* create_index: what it found at schema_path
    schema,       \* create_index: the loaded document
    listed,       \* the names list_indices reported
    exit_code,    \* process exit status of main()
    escaped       \* an exception left the outermost frame

vars == <<env_url, env_key, es, cluster, stack, entry, log, trace, faults,
          all_success, idx, index_name, file, schema, listed, exit_code,
          escaped>>

-----------------------------------------------------------------------------
\* Bounds of the model

\* remote calls that may fail within one run
MaxFaults == 1
\* times the caller repeats a create_index call right after it returned
MaxRepeat == 1

-----------------------------------------------------------------------------
\* Data

\* the four entries of setup_all_indices / delete_all_indices, in order
IndexOrder == <<"regulations", "permits", "inspections", "compliance_events">>

Names == {IndexOrder[i] : i \in 1..Len(IndexOrder)}

\* an index of the cluster that is none of the four
Unrelated == "unrelated"

AllNames == Names \cup {Unrelated}

UrlValues == {"unset", "empty", "set"}
KeyValues == {"unset", "empty", "set"}

\* what create_index finds at schema_path: no file, a file that is not JSON,
\* JSON that is no mapping, or a mapping of create() keyword arguments
FileStates == {"missing", "malformed", "nondict", "valid"}

\* an index of the cluster is absent, or carries the schema it was created
\* with: "pre" for one created earlier by someone else, "doc" for the
\* document of the schema file
IndexStates == {"absent", "pre", "doc"}

\* exit_code while the process has not exited
Running == -1

Methods == {"test_connection", "create_index", "setup_all_indices",
            "list_indices", "delete_all_indices"}

NoEntry == [m \in Methods |-> [cluster |-> [n \in AllNames |-> "absent"],
                                loglen |-> 0, tracelen |-> 0]]

\* Python truthiness of an environment value
Truthy(v) == v \notin {"unset", "empty"}

\* json.load of a schema file that exists
JsonLoad(f) == IF f = "valid" THEN "doc" ELSE IF f = "nondict" THEN "list" ELSE "error"

Present(c) == {n \in AllNames : c[n] # "absent"}

-----------------------------------------------------------------------------
\* Control

Top == Head(stack)

At(f, p) == stack # <<>> /\ Top.fn = f /\ Top.pc = p

Goto(p) == stack' = <<[Top EXCEPT !.pc = p]>> \o Tail(stack)

Call(callee, start, resume) ==
    /\ stack' = <<[fn |-> callee, pc |-> start], [Top EXCEPT !.pc = resume]>> \o Tail(stack)
    /\ entry' = [entry EXCEPT ![callee] = [cluster |-> cluster, loglen |-> Len(log),
                                           tracelen |-> Len(trace)]]

\* the method of the innermost frame returns v to its caller
Return(arg, f, v) ==
    /\ stack' = Tail(stack)
    /\ trace' = Append(trace, [fn |-> Top.fn, arg |-> arg, file |-> f, val |-> v])

\* the value the last returning method handed to its caller
Ret == trace[Len(trace)]

\* as Catches, with list_indices left without its try / except
CatchesAllButList(fn) == fn \in {"test_connection", "create_index",
                                 "delete_all_indices", "main"}

\* the functions whose body is inside try / except Exception
Catches(fn) == fn \in {"test_connection", "create_index", "list_indices",
                       "delete_all_indices", "main"}

RECURSIVE Unwind(_)
Unwind(stk) ==
    IF stk = <<>> THEN <<>>
    ELSE IF Catches(Head(stk).fn)
         THEN <<[fn |-> Head(stk).fn, pc |-> "except"]>> \o Tail(stk)
         ELSE Unwind(Tail(stk))

Raise ==
    /\ stack' = Unwind(stack)
    /\ escaped' = (Unwind(stack) = <<>>)

\* a remote call: recorded in the log with its outcome
Remote(call, name, result) ==
    log' = Append(log, [call |-> call, index |-> name, result |-> result])

Fault(call, name) ==
    /\ faults < MaxFaults
    /\ faults' = faults + 1
    /\ Remote(call, name, "error")

-----------------------------------------------------------------------------
Init ==
    /\ env_url \in UrlValues
    /\ env_key \in KeyValues
    /\ es = "none"
    /\ cluster \in [AllNames -> {"absent", "pre"}]
    /\ stack \in {<<[fn |-> "main", pc |-> "construct"]>>,
                  <<[fn |-> "caller", pc |-> "construct"]>>}
    /\ entry = NoEntry
    /\ log = <<>>
    /\ trace = <<>>
    /\ faults = 0
    /\ all_success = TRUE
    /\ idx = 1
    /\ index_name = "none"
    /\ file = "none"
    /\ schema = "none"
    /\ listed = {}
    /\ exit_code = Running
    /\ escaped = FALSE

-----------------------------------------------------------------------------
\* ElasticsearchSetup.__init__
\* The api_key argument of the client (the whole key, or the pair split at
\* ":") bears on no later step: es records that the client exists.

\* as ConstructBody, testing ELASTICSEARCH_URL alone
ConstructBodyUrlOnly(next) ==
    IF ~Truthy(env_url)
    THEN /\ Raise
         /\ es' = es
    ELSE /\ es' = "client"
         /\ Goto(next)
         /\ escaped' = escaped

ConstructBody(next) ==
    IF ~Truthy(env_url) \/ ~Truthy(env_key)
    THEN /\ Raise
         /\ es' = es
    ELSE /\ es' = "client"
         /\ Goto(next)
         /\ escaped' = escaped

\* main(): setup = ElasticsearchSetup()
MainConstruct ==
    /\ At("main", "construct")
    /\ ConstructBody("setup")
    /\ UNCHANGED <<env_url, env_key, cluster, entry, log, trace, faults,
                   all_success, idx, index_name, file, schema, listed,
                   exit_code>>

\* a caller of the library: ElasticsearchSetup()
CallerConstruct ==
    /\ At("caller", "construct")
    /\ ConstructBody("idle")
    /\ UNCHANGED <<env_url, env_key, cluster, entry, log, trace, faults,
                   all_success, idx, index_name, file, schema, listed,
                   exit_code>>

-----------------------------------------------------------------------------
\* main()

MainCallSetup ==
    /\ At("main", "setup")
    /\ Call("setup_all_indices", "start", "list")
    /\ UNCHANGED <<env_url, env_key, es, cluster, log, trace, faults,
                   all_success, idx, index_name, file, schema, listed,
                   exit_code, escaped>>

MainCallList ==
    /\ At("main", "list")
    /\ Call("list_indices", "get", "end")
    /\ UNCHANGED <<env_url, env_key, es, cluster, log, trace, faults,
                   all_success, idx, index_name, file, schema, listed,
                   exit_code, escaped>>

MainEnd ==
    /\ At("main", "end")
    /\ stack' = <<>>
    /\ exit_code' = 0
    /\ UNCHANGED <<env_url, env_key, es, cluster, entry, log, trace, faults,
                   all_success, idx, index_name, file, schema, listed,
                   escaped>>

\* except Exception: exit(1)
MainExcept ==
    /\ At("main", "except")
    /\ stack' = <<>>
    /\ exit_code' = 1
    /\ UNCHANGED <<env_url, env_key, es, cluster, entry, log, trace, faults,
                   all_success, idx, index_name, file, schema, listed,
                   escaped>>

-----------------------------------------------------------------------------
\* test_connection

TestConnection ==
    /\ At("test_connection", "info")
    /\ \/ /\ Remote("info", "none", "ok")
          /\ Return("none", "none", TRUE)
          /\ UNCHANGED <<faults, escaped>>
       \/ /\ Fault("info", "none")
          /\ Raise
          /\ UNCHANGED trace
    /\ UNCHANGED <<env_url, env_key, es, cluster, entry, all_success, idx,
                   index_name, file, schema, listed, exit_code>>

TestConnectionExcept ==
    /\ At("test_connection", "except")
    /\ Return("none", "none", FALSE)
    /\ UNCHANGED <<env_url, env_key, es, cluster, entry, log, faults,
                   all_success, idx, index_name, file, schema, listed,
                   exit_code, escaped>>

-----------------------------------------------------------------------------
\* create_index(index_name, schema_file)

\* as CreateLoad, without the schema_path.exists() test: a missing file is
\* taken for an empty document
CreateLoadNoFileCheck ==
    /\ At("create_index", "load")
    /\ \E f \in FileStates :
          /\ file' = f
          /\ IF f = "malformed"
             THEN /\ Raise
                  /\ UNCHANGED <<schema, trace>>
             ELSE /\ schema' = IF f = "missing" THEN "doc" ELSE JsonLoad(f)
                  /\ Goto("exists")
                  /\ UNCHANGED <<trace, escaped>>
    /\ UNCHANGED <<env_url, env_key, es, cluster, entry, log, faults,
                   all_success, idx, index_name, listed, exit_code>>

\* as CreateLoad, with the index-exists check moved before the file is read
CreateLoadAfterExists ==
    /\ At("create_index", "load")
    /\ \E f \in FileStates :
          /\ file' = f
          /\ IF cluster[index_name] # "absent"
             THEN /\ Remote("exists", index_name, "true")
                  /\ Return(index_name, f, TRUE)
                  /\ UNCHANGED <<schema, escaped>>
             ELSE IF f = "missing"
             THEN /\ Return(index_name, f, FALSE)
                  /\ UNCHANGED <<schema, escaped, log>>
             ELSE IF JsonLoad(f) = "error"
             THEN /\ Raise
                  /\ UNCHANGED <<schema, trace, log>>
             ELSE /\ schema' = JsonLoad(f)
                  /\ Goto("exists")
                  /\ UNCHANGED <<trace, escaped, log>>
    /\ UNCHANGED <<env_url, env_key, es, cluster, entry, faults, all_success,
                   idx, index_name, listed, exit_code>>

\* schema_path.exists(), open, json.load
CreateLoad ==
    /\ At("create_index", "load")
    /\ \E f \in FileStates :
          /\ file' = f
          /\ IF f = "missing"
             THEN /\ Return(index_name, f, FALSE)
                  /\ UNCHANGED <<schema, escaped>>
             ELSE IF JsonLoad(f) = "error"
             THEN /\ Raise
                  /\ UNCHANGED <<schema, trace>>
             ELSE /\ schema' = JsonLoad(f)
                  /\ Goto("exists")
                  /\ UNCHANGED <<trace, escaped>>
    /\ UNCHANGED <<env_url, env_key, es, cluster, entry, log, faults,
                   all_success, idx, index_name, listed, exit_code>>

\* as CreateExists, with the answer of the check not looked at
CreateExistsIgnored ==
    /\ At("create_index", "exists")
    /\ \/ /\ Fault("exists", index_name)
          /\ Raise
       \/ /\ Remote("exists", index_name,
                    IF cluster[index_name] # "absent" THEN "true" ELSE "false")
          /\ Goto("create")
          /\ UNCHANGED <<faults, escaped>>
    /\ UNCHANGED <<env_url, env_key, es, cluster, entry, trace, all_success,
                   idx, index_name, file, schema, listed, exit_code>>

\* self.es.indices.exists(index=index_name)
CreateExists ==
    /\ At("create_index", "exists")
    /\ \/ /\ Fault("exists", index_name)
          /\ Raise
          /\ UNCHANGED trace
       \/ /\ IF cluster[index_name] # "absent"
             THEN /\ Remote("exists", index_name, "true")
                  /\ Return(index_name, file, TRUE)
             ELSE /\ Remote("exists", index_name, "false")
                  /\ Goto("create")
                  /\ UNCHANGED trace
          /\ UNCHANGED <<faults, escaped>>
    /\ UNCHANGED <<env_url, env_key, es, cluster, entry, all_success, idx,
                   index_name, file, schema, listed, exit_code>>

\* self.es.indices.create(index=index_name, **schema)
CreateCreate ==
    /\ At("create_index", "create")
    /\ IF schema = "list"
       THEN \* ** of something that is no mapping: TypeError, no request
            /\ Raise
            /\ UNCHANGED <<cluster, log, faults, trace>>
       ELSE IF cluster[index_name] # "absent"
       THEN \* the cluster rejects a name that is taken
            /\ Remote("create", index_name, "error")
            /\ Raise
            /\ UNCHANGED <<cluster, faults, trace>>
       ELSE \/ /\ Fault("create", index_name)
               /\ Raise
               /\ UNCHANGED <<cluster, trace>>
            \/ /\ Remote("create", index_name, "ok")
               /\ cluster' = [cluster EXCEPT ![index_name] = schema]
               /\ Return(index_name, file, TRUE)
               /\ UNCHANGED <<faults, escaped>>
    /\ UNCHANGED <<env_url, env_key, es, entry, all_success, idx, index_name,
                   file, schema, listed, exit_code>>

CreateExcept ==
    /\ At("create_index", "except")
    /\ Return(index_name, file, FALSE)
    /\ UNCHANGED <<env_url, env_key, es, cluster, entry, log, faults,
                   all_success, idx, index_name, file, schema, listed,
                   exit_code, escaped>>

-----------------------------------------------------------------------------
\* setup_all_indices

SetupStart ==
    /\ At("setup_all_indices", "start")
    /\ Call("test_connection", "info", "tested")
    /\ UNCHANGED <<env_url, env_key, es, cluster, log, trace, faults,
                   all_success, idx, index_name, file, schema, listed,
                   exit_code, escaped>>

\* as SetupLoop, stopping one entry short
SetupLoopSkipsLast(i, ok) ==
    IF i < Len(IndexOrder)
    THEN /\ index_name' = IndexOrder[i]
         /\ Call("create_index", "load", "created")
         /\ UNCHANGED trace
    ELSE /\ Return("none", "none", ok)
         /\ UNCHANGED <<index_name, entry>>

\* for index_name, schema_file in indices.items(): the entry at position i
\* is handed to create_index; past the last one, return all_success
SetupLoop(i, ok) ==
    IF i <= Len(IndexOrder)
    THEN /\ index_name' = IndexOrder[i]
         /\ Call("create_index", "load", "created")
         /\ UNCHANGED trace
    ELSE /\ Return("none", "none", ok)
         /\ UNCHANGED <<index_name, entry>>

\* as SetupTested, with the result of test_connection not looked at
SetupTestedIgnoresResult ==
    /\ At("setup_all_indices", "tested")
    /\ all_success' = TRUE
    /\ idx' = 1
    /\ SetupLoop(1, TRUE)
    /\ UNCHANGED <<env_url, env_key, es, cluster, log, faults, file, schema,
                   listed, exit_code, escaped>>

\* if not self.test_connection(): return False
SetupTested ==
    /\ At("setup_all_indices", "tested")
    /\ IF Ret.val = FALSE
       THEN /\ Return("none", "none", FALSE)
            /\ UNCHANGED <<all_success, idx, index_name, entry>>
       ELSE /\ all_success' = TRUE
            /\ idx' = 1
            /\ SetupLoop(1, TRUE)
    /\ UNCHANGED <<env_url, env_key, es, cluster, log, faults, file, schema,
                   listed, exit_code, escaped>>

\* as SetupCreated, with all_success set to the result of the last call
SetupCreatedLastWins ==
    /\ At("setup_all_indices", "created")
    /\ all_success' = (Ret.val # FALSE)
    /\ idx' = idx + 1
    /\ SetupLoop(idx + 1, all_success')
    /\ UNCHANGED <<env_url, env_key, es, cluster, log, faults, file, schema,
                   listed, exit_code, escaped>>

\* if not self.create_index(...): all_success = False
SetupCreated ==
    /\ At("setup_all_indices", "created")
    /\ all_success' = IF Ret.val = FALSE THEN FALSE ELSE all_success
    /\ idx' = idx + 1
    /\ SetupLoop(idx + 1, all_success')
    /\ UNCHANGED <<env_url, env_key, es, cluster, log, faults, file, schema,
                   listed, exit_code, escaped>>

-----------------------------------------------------------------------------
\* list_indices

ListIndices ==
    /\ At("list_indices", "get")
    /\ \/ /\ Remote("get", "*", "ok")
          /\ listed' = Present(cluster)
          /\ Return("none", "none", "None")
          /\ UNCHANGED <<faults, escaped>>
       \/ /\ Fault("get", "*")
          /\ Raise
          /\ UNCHANGED <<listed, trace>>
    /\ UNCHANGED <<env_url, env_key, es, cluster, entry, all_success, idx,
                   index_name, file, schema, exit_code>>

ListExcept ==
    /\ At("list_indices", "except")
    /\ Return("none", "none", "None")
    /\ UNCHANGED <<env_url, env_key, es, cluster, entry, log, faults,
                   all_success, idx, index_name, file, schema, listed,
                   exit_code, escaped>>

-----------------------------------------------------------------------------
\* delete_all_indices

\* as DeleteLoop, deleting without the index-exists check
DeleteLoopNoCheck ==
    /\ At("delete_all_indices", "loop")
    /\ IF idx <= Len(IndexOrder)
       THEN /\ Goto("delete")
            /\ UNCHANGED trace
       ELSE /\ Return("none", "none", "None")
    /\ UNCHANGED <<env_url, env_key, es, cluster, entry, log, faults,
                   all_success, idx, index_name, file, schema, listed,
                   exit_code, escaped>>

\* for index_name in indices: if self.es.indices.exists(index=index_name)
DeleteLoop ==
    /\ At("delete_all_indices", "loop")
    /\ IF idx <= Len(IndexOrder)
       THEN \/ /\ Fault("exists", IndexOrder[idx])
               /\ Raise
               /\ UNCHANGED <<idx, trace>>
            \/ /\ IF cluster[IndexOrder[idx]] # "absent"
                  THEN /\ Remote("exists", IndexOrder[idx], "true")
                       /\ Goto("delete")
                       /\ idx' = idx
                  ELSE /\ Remote("exists", IndexOrder[idx], "false")
                       /\ Goto("loop")
                       /\ idx' = idx + 1
               /\ UNCHANGED <<faults, escaped, trace>>
       ELSE /\ Return("none", "none", "None")
            /\ UNCHANGED <<idx, log, faults, escaped>>
    /\ UNCHANGED <<env_url, env_key, es, cluster, entry, all_success,
                   index_name, file, schema, listed, exit_code>>

\* self.es.indices.delete(index=index_name)
DeleteDelete ==
    /\ At("delete_all_indices", "delete")
    /\ IF cluster[IndexOrder[idx]] = "absent"
       THEN \* the cluster knows no index of that name
            /\ Remote("delete", IndexOrder[idx], "error")
            /\ Raise
            /\ UNCHANGED <<cluster, idx, faults>>
       ELSE \/ /\ Fault("delete", IndexOrder[idx])
               /\ Raise
               /\ UNCHANGED <<cluster, idx>>
            \/ /\ Remote("delete", IndexOrder[idx], "ok")
               /\ cluster' = [cluster EXCEPT ![IndexOrder[idx]] = "absent"]
               /\ idx' = idx + 1
               /\ Goto("loop")
               /\ UNCHANGED <<faults, escaped>>
    /\ UNCHANGED <<env_url, env_key, es, entry, trace, all_success,
                   index_name, file, schema, listed, exit_code>>

\* as DeleteExcept, with the handler inside the loop: the next name is tried
DeleteExceptContinues ==
    /\ At("delete_all_indices", "except")
    /\ idx' = idx + 1
    /\ Goto("loop")
    /\ UNCHANGED <<env_url, env_key, es, cluster, entry, log, trace, faults,
                   all_success, index_name, file, schema, listed, exit_code,
                   escaped>>

DeleteExcept ==
    /\ At("delete_all_indices", "except")
    /\ Return("none", "none", "None")
    /\ UNCHANGED <<env_url, env_key, es, cluster, entry, log, faults,
                   all_success, idx, index_name, file, schema, listed,
                   exit_code, escaped>>

-----------------------------------------------------------------------------
\* A caller of the library: once constructed, it calls the methods one after
\* another.

StartOf(m) ==
    CASE m = "test_connection" -> "info"
      [] m = "create_index" -> "load"
      [] m = "setup_all_indices" -> "start"
      [] m = "list_indices" -> "get"
      [] m = "delete_all_indices" -> "loop"

CallerCall ==
    /\ At("caller", "idle")
    /\ \E m \in Methods :
          /\ Call(m, StartOf(m), "got")
          /\ IF m = "create_index"
             THEN \E n \in Names : index_name' = n
             ELSE index_name' = index_name
    /\ UNCHANGED <<env_url, env_key, es, cluster, log, trace, faults,
                   all_success, idx, file, schema, listed, exit_code,
                   escaped>>

\* the caller calls create_index again, with the same arguments
CallerAgain ==
    /\ At("caller", "got")
    /\ Ret.fn = "create_index"
    /\ Len(trace) <= MaxRepeat
    /\ Call("create_index", "load", "got")
    /\ index_name' = Ret.arg
    /\ UNCHANGED <<env_url, env_key, es, cluster, log, trace, faults,
                   all_success, idx, file, schema, listed, exit_code,
                   escaped>>

\* the call is over: its locals and the record of the run are dropped
CallerGot ==
    /\ At("caller", "got")
    /\ Goto("idle")
    /\ entry' = NoEntry
    /\ log' = <<>>
    /\ trace' = <<>>
    /\ faults' = 0
    /\ all_success' = TRUE
    /\ idx' = 1
    /\ index_name' = "none"
    /\ file' = "none"
    /\ schema' = "none"
    /\ listed' = {}
    /\ UNCHANGED <<env_url, env_key, es, cluster, exit_code, escaped>>

-----------------------------------------------------------------------------
Next ==
    \/ MainConstruct
    \/ CallerConstruct
    \/ MainCallSetup
    \/ MainCallList
    \/ MainEnd
    \/ MainExcept
    \/ TestConnection
    \/ TestConnectionExcept
    \/ CreateLoad
    \/ CreateExists
    \/ CreateCreate
    \/ CreateExcept
    \/ SetupStart
    \/ SetupTested
    \/ SetupCreated
    \/ ListIndices
    \/ ListExcept
    \/ DeleteLoop
    \/ DeleteDelete
    \/ DeleteExcept
    \/ CallerCall
    \/ CallerAgain
    \/ CallerGot

Spec == Init /\ [][Next]_vars

TypeOK ==
    /\ es \in {"none", "client"}
    /\ cluster \in [AllNames -> IndexStates]
    /\ faults \in 0..MaxFaults
    /\ idx \in 1..(Len(IndexOrder) + 1)
    /\ exit_code \in {Running, 0, 1}
    /\ escaped \in BOOLEAN

-----------------------------------------------------------------------------
\* Vocabulary of the properties

\* method fn has just returned and its caller has not moved on yet
After(fn) ==
    /\ trace # <<>>
    /\ Ret.fn = fn
    /\ stack # <<>>
    /\ Top.fn \in {"main", "caller", "setup_all_indices"}
    /\ Top.pc \in {"list", "end", "got", "tested", "created"}

\* remote calls and method returns since the latest entry of fn
LogSince(fn) == SubSeq(log, entry[fn].loglen + 1, Len(log))
TraceSince(fn) == SubSeq(trace, entry[fn].tracelen + 1, Len(trace))

RECURSIVE Only(_, _)
Only(seq, fn) ==
    IF seq = <<>> THEN <<>>
    ELSE IF Head(seq).fn = fn THEN <<Head(seq)>> \o Only(Tail(seq), fn)
         ELSE Only(Tail(seq), fn)

\* the create_index returns of the latest setup_all_indices run, in order
SetupCreates == Only(TraceSince("setup_all_indices"), "create_index")

\* test_connection reported failure in the latest setup_all_indices run
SetupTestFailed ==
    \E i \in 1..Len(TraceSince("setup_all_indices")) :
        /\ TraceSince("setup_all_indices")[i].fn = "test_connection"
        /\ TraceSince("setup_all_indices")[i].val = FALSE

Issued(seq, call) == {i \in 1..Len(seq) : seq[i].call = call}

-----------------------------------------------------------------------------
\* C1: when test_connection reports failure, setup_all_indices returns false,
\* has issued no index-exists check and no creation call, has called
\* create_index not once, and leaves the indices of the cluster as they were.
C1_AbortOnFailedConnection ==
    (After("setup_all_indices") /\ SetupTestFailed) =>
        /\ Ret.val = FALSE
        /\ Issued(LogSince("setup_all_indices"), "create") = {}
        /\ Issued(LogSince("setup_all_indices"), "exists") = {}
        /\ SetupCreates = <<>>
        /\ cluster = entry["setup_all_indices"].cluster

C1_Witness ==
    /\ After("setup_all_indices")
    /\ SetupTestFailed
    /\ Ret.val = FALSE
    /\ Len(LogSince("setup_all_indices")) = 1

\* C2: with the connection up, setup_all_indices calls create_index for the
\* four entries in their fixed order whatever the earlier ones returned, and
\* returns true exactly when all four calls returned true; every entry whose
\* call returned true is an index of the cluster afterwards.
C2_AllAttemptedAndConjoined ==
    After("setup_all_indices") =>
        /\ Ret.val \in BOOLEAN
        /\ Ret.val = (/\ Len(SetupCreates) = Len(IndexOrder)
                      /\ \A i \in 1..Len(SetupCreates) : SetupCreates[i].val = TRUE)
        /\ ~SetupTestFailed =>
              /\ Len(SetupCreates) = Len(IndexOrder)
              /\ \A i \in 1..Len(IndexOrder) :
                    /\ SetupCreates[i].arg = IndexOrder[i]
                    /\ SetupCreates[i].val = TRUE => cluster[IndexOrder[i]] # "absent"

\* only permits.json is missing and nothing else goes wrong: the other three
\* indices are created and the result is false
C2_Witness ==
    /\ After("setup_all_indices")
    /\ Len(SetupCreates) = 4
    /\ SetupCreates[2].file = "missing"
    /\ \A i \in {1, 3, 4} : SetupCreates[i].file = "valid" /\ SetupCreates[i].val = TRUE
    /\ \A n \in Names : entry["setup_all_indices"].cluster[n] = "absent"
    /\ \A n \in Names \ {"permits"} : cluster[n] = "doc"
    /\ cluster["permits"] = "absent"
    /\ Ret.val = FALSE

\* ---------------------------------------------------------------------------
\* create_index

\* the schema file was there and json.load accepted it
Loaded(f) == f \in {"nondict", "valid"}

\* C3, as stated: whenever the named index already exists, create_index
\* returns true, issues no creation call and leaves the cluster unchanged.
C3_ExistingAlwaysTrue ==
    (After("create_index") /\ entry["create_index"].cluster[Ret.arg] # "absent") =>
        /\ Ret.val = TRUE
        /\ Issued(LogSince("create_index"), "create") = {}
        /\ cluster = entry["create_index"].cluster

\* C3, amended: whenever the named index already exists, create_index issues
\* no creation call and leaves the cluster, that index and its schema included,
\* unchanged; it returns true exactly when the schema file is there and parses
\* and the index-exists check does not fail. A call that follows a call for
\* the same name that returned true finds the index present, so it falls
\* under the same rule.
C3_IdempotentWhenLoadable ==
    After("create_index") =>
        /\ entry["create_index"].cluster[Ret.arg] # "absent" =>
              /\ Issued(LogSince("create_index"), "create") = {}
              /\ cluster = entry["create_index"].cluster
              /\ Ret.val = (/\ Loaded(Ret.file)
                            /\ LogSince("create_index") =
                                 <<[call |-> "exists", index |-> Ret.arg, result |-> "true"]>>)
        /\ (/\ At("caller", "got")
            /\ Len(trace) >= 2
            /\ trace[Len(trace) - 1].val = TRUE) =>
              /\ trace[Len(trace) - 1].arg = Ret.arg
              /\ entry["create_index"].cluster[Ret.arg] # "absent"
              /\ cluster[Ret.arg] = entry["create_index"].cluster[Ret.arg]

\* the second of two calls in sequence: the first created the index, the
\* second returns true on one index-exists check
C3_Witness ==
    /\ At("caller", "got")
    /\ Len(trace) = 2
    /\ trace[1].fn = "create_index" /\ trace[1].val = TRUE
    /\ trace[2].fn = "create_index" /\ trace[2].val = TRUE
    /\ Issued(log, "create") = {2}
    /\ Len(log) = 3
    /\ cluster[Ret.arg] = "doc"

\* C4: when the schema file is absent or is not parseable, create_index
\* returns false, lets no exception out, issues no creation call and leaves
\* the indices of the cluster as they were.
C4_BadSchemaFileIsSkipped ==
    /\ (After("create_index") /\ ~Loaded(Ret.file)) =>
          /\ Ret.val = FALSE
          /\ Issued(LogSince("create_index"), "create") = {}
          /\ cluster = entry["create_index"].cluster
    /\ (es = "client" /\ ~Loaded(file) /\ file # "none") =>
          /\ ~escaped
          /\ ~At("main", "except")
          /\ exit_code # 1

C4_Witness ==
    /\ After("create_index")
    /\ Ret.file = "malformed"
    /\ Ret.val = FALSE
    /\ entry["create_index"].cluster[Ret.arg] = "absent"

\* C10: create_index reads the schema file before it asks the cluster: with
\* the file missing or malformed it returns false without any remote call,
\* an index-exists check included, also when the index exists; so a run of
\* setup_all_indices over a cluster that holds all four indices returns
\* false as soon as one schema file is missing or malformed.
C10_SchemaLoadedBeforeExistsCheck ==
    /\ (After("create_index") /\ ~Loaded(Ret.file)) =>
          /\ Ret.val = FALSE
          /\ LogSince("create_index") = <<>>
    /\ (/\ After("setup_all_indices")
        /\ \E i \in 1..Len(SetupCreates) : ~Loaded(SetupCreates[i].file)) =>
          Ret.val = FALSE

C10_Witness ==
    /\ After("setup_all_indices")
    /\ \A n \in Names : entry["setup_all_indices"].cluster[n] # "absent"
    /\ Len(SetupCreates) = 4
    /\ SetupCreates[3].file = "missing"
    /\ \A i \in {1, 2, 4} : SetupCreates[i].val = TRUE
    /\ Issued(LogSince("setup_all_indices"), "exists") = {2, 3, 4}
    /\ faults = 0
    /\ Ret.val = FALSE

\* ---------------------------------------------------------------------------
\* delete_all_indices

\* delete_all_indices is running or has just returned
InDelete ==
    \/ After("delete_all_indices")
    \/ stack # <<>> /\ Top.fn = "delete_all_indices"

\* position of a name in the fixed order
PosOf(n) == CHOOSE i \in 1..Len(IndexOrder) : IndexOrder[i] = n

\* C5: delete_all_indices issues a delete call only right after an
\* index-exists check of the same name that answered true, and only for the
\* four fixed names; a name that is absent is passed over without an error
\* and without a delete call; an index changes only by being deleted after
\* such a check, so no index outside the four is touched.
C5_DeleteOnlyExisting ==
    InDelete =>
        /\ \A i \in Issued(log, "delete") :
              /\ i > 1
              /\ log[i - 1] = [call |-> "exists", index |-> log[i].index, result |-> "true"]
              /\ log[i].index \in Names
              /\ entry["delete_all_indices"].cluster[log[i].index] # "absent"
        /\ \A i \in Issued(log, "exists") :
              log[i].result = "false" =>
                 /\ entry["delete_all_indices"].cluster[log[i].index] = "absent"
                 /\ i < Len(log) => log[i + 1].call = "exists"
                 /\ ~escaped
        /\ \A n \in AllNames :
              cluster[n] # entry["delete_all_indices"].cluster[n] =>
                 /\ n \in Names
                 /\ cluster[n] = "absent"
                 /\ \E i \in Issued(log, "delete") : log[i].index = n /\ log[i].result = "ok"

\* one name absent and passed over, a later one deleted
C5_Witness ==
    /\ After("delete_all_indices")
    /\ entry["delete_all_indices"].cluster["regulations"] = "absent"
    /\ entry["delete_all_indices"].cluster["permits"] = "pre"
    /\ entry["delete_all_indices"].cluster[Unrelated] = "pre"
    /\ cluster["permits"] = "absent"
    /\ cluster[Unrelated] = "pre"
    /\ faults = 0

\* C9: when an index-exists check or a delete call of delete_all_indices
\* fails, that call is the last one of the run: the names later in the fixed
\* order are neither checked nor deleted and keep their state, the names
\* deleted before stay deleted, and the function returns normally.
C9_DeleteStopsAtFirstFailure ==
    After("delete_all_indices") =>
        /\ Ret.val = "None"
        /\ ~escaped
        /\ \A i \in 1..Len(log) :
              log[i].result = "error" =>
                 /\ i = Len(log)
                 /\ \A n \in Names :
                       PosOf(n) > PosOf(log[i].index) =>
                          /\ \A j \in 1..Len(log) : log[j].index # n
                          /\ cluster[n] = entry["delete_all_indices"].cluster[n]
                 /\ \A n \in Names :
                       PosOf(n) < PosOf(log[i].index) => cluster[n] = "absent"
                 /\ cluster[log[i].index] = entry["delete_all_indices"].cluster[log[i].index]

\* the delete of the second name fails: the first is gone, the last two stay
C9_Witness ==
    /\ After("delete_all_indices")
    /\ \A n \in Names : entry["delete_all_indices"].cluster[n] = "pre"
    /\ log[Len(log)] = [call |-> "delete", index |-> "permits", result |-> "error"]
    /\ cluster["regulations"] = "absent"
    /\ cluster["permits"] = "pre"
    /\ cluster["inspections"] = "pre"
    /\ cluster["compliance_events"] = "pre"

\* ---------------------------------------------------------------------------
\* Construction and the entry point

\* the constructor has run, or failed
Constructed == ~At("main", "construct") /\ ~At("caller", "construct")

\* C6: with both variables set the construction succeeds; with either one
\* unset it fails before any remote call, and main() then runs neither
\* setup_all_indices nor list_indices and exits with status 1.
C6_ConstructionNeedsBothVariables ==
    Constructed =>
        /\ (env_url = "set" /\ env_key = "set") => es = "client"
        /\ (env_url = "unset" \/ env_key = "unset") =>
              /\ es = "none"
              /\ log = <<>>
              /\ trace = <<>>
              /\ \/ At("main", "except")
                 \/ stack = <<>> /\ exit_code = 1
                 \/ stack = <<>> /\ escaped

C6_Witness ==
    /\ env_url = "set"
    /\ env_key = "unset"
    /\ exit_code = 1
    /\ log = <<>>

\* C7: a run of setup_all_indices in which no remote call fails, over a
\* cluster that holds none of the four indices, with four valid schema files,
\* returns true and leaves the cluster with the four indices, created from
\* their schema files, next to the other indices it had, unchanged; and no run
\* of setup_all_indices or list_indices changes an index outside the four,
\* list_indices changing none at all and reporting the names of the cluster.
C7_EndToEnd ==
    /\ (/\ After("setup_all_indices")
        /\ \A i \in 1..Len(LogSince("setup_all_indices")) :
              LogSince("setup_all_indices")[i].result # "error"
        /\ \A n \in Names : entry["setup_all_indices"].cluster[n] = "absent"
        /\ \A i \in 1..Len(SetupCreates) : SetupCreates[i].file = "valid") =>
          /\ Ret.val = TRUE
          /\ \A n \in Names : cluster[n] = "doc"
          /\ cluster[Unrelated] = entry["setup_all_indices"].cluster[Unrelated]
    /\ After("setup_all_indices") =>
          cluster[Unrelated] = entry["setup_all_indices"].cluster[Unrelated]
    /\ After("list_indices") =>
          /\ cluster = entry["list_indices"].cluster
          /\ log[Len(log)].result = "ok" => listed = Present(cluster)
    /\ (At("main", "end") /\ After("list_indices")) =>
          cluster[Unrelated] = entry["setup_all_indices"].cluster[Unrelated]

\* main(): the run above, then list_indices reports the four names and the
\* unrelated index that was there before
C7_Witness ==
    /\ At("main", "end")
    /\ After("list_indices")
    /\ \A n \in Names : entry["setup_all_indices"].cluster[n] = "absent"
    /\ entry["setup_all_indices"].cluster[Unrelated] = "pre"
    /\ trace[Len(trace) - 1].fn = "setup_all_indices"
    /\ trace[Len(trace) - 1].val = TRUE
    /\ listed = AllNames
    /\ cluster[Unrelated] = "pre"

\* C8: once the construction has succeeded, no exception reaches the handler
\* of main() or leaves the library, so main() never exits with status 1; and
\* when main() exits with status 0 it has run setup_all_indices and then
\* list_indices, whatever setup_all_indices returned.
C8_SetupThenListNothingPropagates ==
    /\ es = "client" =>
          /\ ~escaped
          /\ ~At("main", "except")
          /\ exit_code # 1
    /\ exit_code = 1 => es = "none"
    /\ exit_code = 0 =>
          /\ Len(trace) >= 2
          /\ trace[Len(trace)].fn = "list_indices"
          /\ trace[Len(trace) - 1].fn = "setup_all_indices"
          /\ log # <<>>
          /\ log[Len(log)].call = "get"
    /\ At("main", "end") => After("list_indices")
    /\ At("main", "list") => After("setup_all_indices")

\* the connection failed, setup_all_indices returned false, list_indices ran
\* all the same and the process exits with status 0
C8_Witness ==
    /\ exit_code = 0
    /\ trace[Len(trace) - 1].fn = "setup_all_indices"
    /\ trace[Len(trace) - 1].val = FALSE
    /\ log[1].result = "error"
    /\ trace[Len(trace)].fn = "list_indices"

====
